---- MODULE Spec2Model ----
(***************************************************************************)
(* Interview-preparation agent: the multi-phase conversation controller    *)
(* (InterviewPrepAgent), the request orchestrator                          *)
(* (InterviewPrepAgentExecutor) and the background webhook worker          *)
(* (InterviewPrepPushNotificationHandler).                                 *)
(*                                                                         *)
(* Text is modelled character by character: an utterance or a URL is a     *)
(* sequence of one-character strings, so that keyword matching, lower(),   *)
(* strip(), split('\n'), str.replace and urlparse are computed as Python   *)
(* computes them.                                                          *)
(***************************************************************************)
EXTENDS Integers, Sequences, FiniteSets, TLC

(***************************************************************************)
(* Bounds of the model.                                                    *)
(***************************************************************************)
\* requests handled by execute() in one behaviour
MaxRequests == 6
\* background workers spawned in one behaviour
MaxWorkers == 2

(***************************************************************************)
(* The state of the server.                                                *)
(***************************************************************************)
VARIABLES
    conversation_states,  \* InterviewPrepAgent.conversation_states
    workers,              \* the background tasks created so far, in creation order
    env_base_api_url,     \* the environment variable BASE_API_URL
    env_callback_token,   \* the environment variable A2A_CALLBACK_TOKEN
    last_request,         \* the request execute() handled last, and its response events
    requests              \* number of requests handled

vars ==
    <<conversation_states, workers, env_base_api_url, env_callback_token,
      last_request, requests>>

(***************************************************************************)
(* Text.                                                                   *)
(***************************************************************************)
UPPER == <<"A","B","C","D","E","F","G","H","I","J","K","L","M","N","O","P","Q","R","S","T","U","V","W","X","Y","Z">>
LOWER == <<"a","b","c","d","e","f","g","h","i","j","k","l","m","n","o","p","q","r","s","t","u","v","w","x","y","z">>
DIGITS == <<"0","1","2","3","4","5","6","7","8","9">>
WHITESPACE == {" ", "\t", "\n", "\r"}

Range(s) == {s[i] : i \in 1..Len(s)}

\* the utterances a caller sends
Utterances ==
    { "I want to prepare for interviews",
      "algorithms and system design",
      "intermediate",
      "balanced",
      "yes, create my plan",
      "hello" }

\* utterances with the standalone word "all": alone, in capitals among other
\* text, and on a line that is not the last line
AllWordUtterances ==
    { "all",
      "ALL of them please",
      "all topics\nthanks" }

\* an utterance that names a second skill level and a second preference
OtherInputUtterances == { "advanced theory" }

\* every utterance the parsers are given
TurnUtterances == Utterances \cup AllWordUtterances \cup OtherInputUtterances

\* the callback URLs a caller supplies in a push notification config
CallbackUrls ==
    { "http://localhost:8080/webhook",
      "",
      "ftp://example.com/hook",
      "BASE_API_URL/webhook" }

\* callback URLs with the placeholder as host and inside the path
PlaceholderUrls ==
    { "http://BASE_API_URL/webhook",
      "http://example.com/BASE_API_URL/hook" }

\* the values the environment variable BASE_API_URL takes; <<>> is unset
BaseApiUrls ==
    { <<>>,
      <<"h","t","t","p",":","/","/","a","p","i",".","e","x","a","m","p","l","e",".","c","o","m","/">> }

\* the characters of an utterance or of a URL
Chars(u) ==
    CASE u = "I want to prepare for interviews" ->
            <<"I"," ","w","a","n","t"," ","t","o"," ","p","r","e","p","a","r","e"," ","f","o","r"," ","i","n","t","e","r","v","i","e","w","s">>
      [] u = "algorithms and system design" ->
            <<"a","l","g","o","r","i","t","h","m","s"," ","a","n","d"," ","s","y","s","t","e","m"," ","d","e","s","i","g","n">>
      [] u = "intermediate" ->
            <<"i","n","t","e","r","m","e","d","i","a","t","e">>
      [] u = "balanced" ->
            <<"b","a","l","a","n","c","e","d">>
      [] u = "yes, create my plan" ->
            <<"y","e","s",","," ","c","r","e","a","t","e"," ","m","y"," ","p","l","a","n">>
      [] u = "hello" ->
            <<"h","e","l","l","o">>
      [] u = "all" ->
            <<"a","l","l">>
      [] u = "ALL of them please" ->
            <<"A","L","L"," ","o","f"," ","t","h","e","m"," ","p","l","e","a","s","e">>
      [] u = "all topics\nthanks" ->
            <<"a","l","l"," ","t","o","p","i","c","s","\n","t","h","a","n","k","s">>
      [] u = "advanced theory" ->
            <<"a","d","v","a","n","c","e","d"," ","t","h","e","o","r","y">>
      [] u = "http://localhost:8080/webhook" ->
            <<"h","t","t","p",":","/","/","l","o","c","a","l","h","o","s","t",":","8","0","8","0","/","w","e","b","h","o","o","k">>
      [] u = "" ->
            <<>>
      [] u = "ftp://example.com/hook" ->
            <<"f","t","p",":","/","/","e","x","a","m","p","l","e",".","c","o","m","/","h","o","o","k">>
      [] u = "BASE_API_URL/webhook" ->
            <<"B","A","S","E","_","A","P","I","_","U","R","L","/","w","e","b","h","o","o","k">>
      [] u = "http://BASE_API_URL/webhook" ->
            <<"h","t","t","p",":","/","/","B","A","S","E","_","A","P","I","_","U","R","L","/","w","e","b","h","o","o","k">>
      [] u = "http://example.com/BASE_API_URL/hook" ->
            <<"h","t","t","p",":","/","/","e","x","a","m","p","l","e",".","c","o","m","/","B","A","S","E","_","A","P","I","_","U","R","L","/","h","o","o","k">>

\* str.lower() on one character and on a string
lower_char(c) ==
    IF \E k \in 1..Len(UPPER) : UPPER[k] = c
    THEN LOWER[CHOOSE k \in 1..Len(UPPER) : UPPER[k] = c]
    ELSE c

lower(s) == [i \in 1..Len(s) |-> lower_char(s[i])]

\* Python's `sub in s`
Contains(s, sub) ==
    \E i \in 0..(Len(s) - Len(sub)) : SubSeq(s, i + 1, i + Len(sub)) = sub

\* any(word in s for word in words)
AnyWordIn(words, s) == \E k \in 1..Len(words) : Contains(s, words[k])

\* str.find(ch) over a set of characters: the first index holding one of them, 0 if none
FindFirst(s, chars) ==
    IF \E i \in 1..Len(s) : s[i] \in chars
    THEN CHOOSE i \in 1..Len(s) : s[i] \in chars /\ \A j \in 1..(i - 1) : s[j] \notin chars
    ELSE 0

\* str.strip()
strip(s) ==
    IF \A i \in 1..Len(s) : s[i] \in WHITESPACE
    THEN <<>>
    ELSE LET a == CHOOSE i \in 1..Len(s) :
                      s[i] \notin WHITESPACE /\ \A j \in 1..(i - 1) : s[j] \in WHITESPACE
             b == CHOOSE i \in 1..Len(s) :
                      s[i] \notin WHITESPACE /\ \A j \in (i + 1)..Len(s) : s[j] \in WHITESPACE
         IN  SubSeq(s, a, b)

\* str.split('\n')
RECURSIVE split_lines(_)
split_lines(s) ==
    LET i == FindFirst(s, {"\n"})
    IN  IF i = 0 THEN <<s>>
        ELSE <<SubSeq(s, 1, i - 1)>> \o split_lines(SubSeq(s, i + 1, Len(s)))

\* the parsers read only the last non-empty line of the query
last_user_line(query) ==
    LET raw == split_lines(strip(query))
        stripped == [i \in 1..Len(raw) |-> strip(raw[i])]
        NonEmpty(l) == l # <<>>
        lines == SelectSeq(stripped, NonEmpty)
    IN  IF lines # <<>> THEN lines[Len(lines)] ELSE query

(***************************************************************************)
(* Vocabularies.                                                           *)
(***************************************************************************)
IntentKeywords ==
    << <<"i","n","t","e","r","v","i","e","w">>,
       <<"p","r","e","p","a","r","e">>,
       <<"j","o","b">>,
       <<"c","o","d","i","n","g">> >>

ConfirmWords ==
    << <<"y","e","s">>,
       <<"s","t","a","r","t">>,
       <<"c","r","e","a","t","e">>,
       <<"b","e","g","i","n">>,
       <<"p","r","o","c","e","e","d">> >>

\* the words of the pre-check of the executor
PreCheckWords ==
    << <<"y","e","s">>,
       <<"s","t","a","r","t">>,
       <<"c","r","e","a","t","e">>,
       <<"b","e","g","i","n">>,
       <<"p","r","o","c","e","e","d">> >>

BeginnerWords ==
    << <<"b","e","g","i","n","n","e","r">>,
       <<"n","e","w">>,
       <<"s","t","a","r","t">> >>

IntermediateWords ==
    << <<"i","n","t","e","r","m","e","d","i","a","t","e">>,
       <<"s","o","m","e"," ","e","x","p","e","r","i","e","n","c","e">>,
       <<"m","i","d">> >>

AdvancedWords ==
    << <<"a","d","v","a","n","c","e","d">>,
       <<"e","x","p","e","r","t">>,
       <<"e","x","p","e","r","i","e","n","c","e","d">> >>

TheoryWords ==
    << <<"t","h","e","o","r","y">>,
       <<"c","o","n","c","e","p","t">>,
       <<"u","n","d","e","r","s","t","a","n","d","i","n","g">> >>

CodingWords ==
    << <<"c","o","d","i","n","g">>,
       <<"p","r","a","c","t","i","c","e">>,
       <<"h","a","n","d","s","-","o","n">> >>

BalancedWords ==
    << <<"b","a","l","a","n","c","e","d">>,
       <<"m","i","x">>,
       <<"b","o","t","h">> >>

ProjectWords ==
    << <<"p","r","o","j","e","c","t">>,
       <<"b","u","i","l","d">>,
       <<"r","e","a","l">> >>

SatisfiedWords ==
    << <<"s","a","t","i","s","f","i","e","d">>,
       <<"g","o","o","d">>,
       <<"p","e","r","f","e","c","t">>,
       <<"t","h","a","n","k","s">>,
       <<"d","o","n","e">>,
       <<"c","o","m","p","l","e","t","e">> >>

RefineWords ==
    << <<"a","d","j","u","s","t">>,
       <<"c","h","a","n","g","e">>,
       <<"m","o","d","i","f","y">>,
       <<"r","e","f","i","n","e">>,
       <<"u","p","d","a","t","e">>,
       <<"i","m","p","r","o","v","e">> >>

domain_keywords ==
    << [domain |-> "algorithms", keywords |->
          << <<"a","l","g","o","r","i","t","h","m">>,
             <<"a","l","g","o">>,
             <<"d","s","a">>,
             <<"l","e","e","t","c","o","d","e">> >>],
       [domain |-> "system_design", keywords |->
          << <<"s","y","s","t","e","m"," ","d","e","s","i","g","n">>,
             <<"s","y","s","t","e","m","s"," ","d","e","s","i","g","n">>,
             <<"s","y","s","t","e","m"," ","a","r","c","h","i","t","e","c","t","u","r","e">>,
             <<"d","i","s","t","r","i","b","u","t","e","d"," ","s","y","s","t","e","m">> >>],
       [domain |-> "databases", keywords |->
          << <<"d","a","t","a","b","a","s","e">>,
             <<"d","b">>,
             <<"s","q","l">> >>],
       [domain |-> "machine_learning", keywords |->
          << <<"m","a","c","h","i","n","e"," ","l","e","a","r","n","i","n","g">>,
             <<"m","l">>,
             <<"d","a","t","a"," ","s","c","i","e","n","c","e">> >>],
       [domain |-> "behavioral", keywords |->
          << <<"b","e","h","a","v","i","o","r","a","l">>,
             <<"b","e","h","a","v","i","o","r">>,
             <<"s","o","f","t"," ","s","k","i","l","l">> >>],
       [domain |-> "frontend", keywords |->
          << <<"f","r","o","n","t","e","n","d">>,
             <<"f","r","o","n","t","-","e","n","d">>,
             <<"r","e","a","c","t">>,
             <<"j","a","v","a","s","c","r","i","p","t">>,
             <<"u","i","/","u","x">> >>],
       [domain |-> "backend", keywords |->
          << <<"b","a","c","k","e","n","d">>,
             <<"b","a","c","k","-","e","n","d">>,
             <<"s","e","r","v","e","r">>,
             <<"m","i","c","r","o","s","e","r","v","i","c","e">> >>] >>
WordAll == <<"a","l","l">>
WordEverything == <<"e","v","e","r","y","t","h","i","n","g">>

ALL_DOMAINS ==
    << "algorithms", "system_design", "databases", "machine_learning",
       "behavioral", "frontend", "backend" >>

None == "None"

(***************************************************************************)
(* The parsers of InterviewPrepAgent.                                      *)
(***************************************************************************)
\* \w of the regular expression
IsWordChar(c) == c \in Range(LOWER) \cup Range(UPPER) \cup Range(DIGITS) \cup {"_"}

\* re.search(r'\ball\b', s)
re_search_all(s) ==
    \E i \in 1..(Len(s) - 2) :
        /\ SubSeq(s, i, i + 2) = WordAll
        /\ (i = 1 \/ ~IsWordChar(s[i - 1]))
        /\ (i + 2 = Len(s) \/ ~IsWordChar(s[i + 3]))

_parse_domains(query) ==
    LET query_lower == lower(last_user_line(query))
        Hit(e) == AnyWordIn(e.keywords, query_lower)
        matched == SelectSeq(domain_keywords, Hit)
    IN  IF re_search_all(query_lower) \/ Contains(query_lower, WordEverything)
        THEN ALL_DOMAINS
        ELSE [i \in 1..Len(matched) |-> matched[i].domain]

_parse_skill_level(query) ==
    LET query_lower == lower(last_user_line(query))
    IN  IF AnyWordIn(BeginnerWords, query_lower) THEN "beginner"
        ELSE IF AnyWordIn(IntermediateWords, query_lower) THEN "intermediate"
        ELSE IF AnyWordIn(AdvancedWords, query_lower) THEN "advanced"
        ELSE None

_parse_preference(query) ==
    LET query_lower == lower(last_user_line(query))
    IN  IF AnyWordIn(TheoryWords, query_lower) THEN "theory_heavy"
        ELSE IF AnyWordIn(CodingWords, query_lower) THEN "coding_heavy"
        ELSE IF AnyWordIn(BalancedWords, query_lower) THEN "balanced"
        ELSE IF AnyWordIn(ProjectWords, query_lower) THEN "project_based"
        ELSE None

\* the confirmation test of _handle_ready_to_process
IsConfirmation(query) == AnyWordIn(ConfirmWords, lower(query))

\* the confirmation test of the executor's pre-check
IsPreCheckConfirmation(query) == AnyWordIn(PreCheckWords, lower(query))

\* what each parser makes of each utterance, computed once
Parsed ==
    [u \in TurnUtterances |->
        [intent       |-> AnyWordIn(IntentKeywords, lower(Chars(u))),
         domains      |-> _parse_domains(Chars(u)),
         skill_level  |-> _parse_skill_level(Chars(u)),
         preference   |-> _parse_preference(Chars(u)),
         confirmation |-> IsConfirmation(Chars(u)),
         pre_check    |-> IsPreCheckConfirmation(Chars(u)),
         satisfied    |-> AnyWordIn(SatisfiedWords, lower(Chars(u))),
         refine       |-> AnyWordIn(RefineWords, lower(Chars(u)))]]

(***************************************************************************)
(* ConversationState.                                                      *)
(***************************************************************************)
INITIAL == "initial"
DOMAIN_SELECTION == "domain_selection"
LEVEL_ASSESSMENT == "level_assessment"
PREFERENCE_GATHERING == "preference_gathering"
READY_TO_PROCESS == "ready_to_process"
PROCESSING_CONFIRMATION == "processing_confirmation"
ASYNC_PROCESSING == "async_processing"
PLAN_DELIVERED == "plan_delivered"
REFINEMENT_INPUT == "refinement_input"
REFINEMENT_PROCESSING == "refinement_processing"
COMPLETED == "completed"

\* the members of ConversationPhase
ConversationPhases ==
    {INITIAL, DOMAIN_SELECTION, LEVEL_ASSESSMENT, PREFERENCE_GATHERING, READY_TO_PROCESS,
     PROCESSING_CONFIRMATION, ASYNC_PROCESSING, PLAN_DELIVERED, REFINEMENT_INPUT,
     REFINEMENT_PROCESSING, COMPLETED}

\* ConversationState(): the record a context id gets on first use.  The fields
\* processing_steps, current_processing_step and research_data, and the
\* user inputs target_role, timeline, specific_companies and
\* additional_requirements are never written by the program and are left out.
\* A history entry keeps its role and phase; no code reads an entry's content.
ConversationState ==
    [phase |-> INITIAL,
     user_inputs |-> [domains |-> <<>>, skill_level |-> None, preference |-> None],
     messages_history |-> <<>>,
     plan_generated |-> FALSE,
     awaiting_processing_confirmation |-> FALSE,
     plan_content |-> None,
     refinement_requests |-> <<>>,
     satisfaction_confirmed |-> FALSE]

add_message(state, role) ==
    [state EXCEPT !.messages_history = Append(@, [role |-> role, phase |-> state.phase])]

advance_phase(state, new_phase) == [state EXCEPT !.phase = new_phase]

is_input_complete(state) ==
    /\ Len(state.user_inputs.domains) > 0
    /\ state.user_inputs.skill_level # None
    /\ state.user_inputs.preference # None

(***************************************************************************)
(* Turn outcomes.  A content is the name of the message and the plan text  *)
(* embedded in it, if any.                                                 *)
(***************************************************************************)
Msg(id) == [id |-> id, plan |-> None]

Item(complete, input, content, phase) ==
    [is_task_complete |-> complete,
     require_user_input |-> input,
     content |-> content,
     phase |-> phase,
     trigger_async_processing |-> FALSE,
     trigger_refinement_processing |-> FALSE]

Turn(state, item) == [state |-> state, item |-> item]

(***************************************************************************)
(* InterviewPrepAgent: one handler per phase.  Each takes the state after  *)
(* the user message was recorded and gives the new state and the item it   *)
(* yields.                                                                 *)
(***************************************************************************)
\* _handle_initial_phase, had it moved on whatever the utterance
_handle_initial_phase_always(query, state) ==
    Turn(add_message(advance_phase(state, DOMAIN_SELECTION), "agent"),
         Item(FALSE, TRUE, Msg("domain_menu"), DOMAIN_SELECTION))

_handle_initial_phase(query, state) ==
    IF Parsed[query].intent
    THEN Turn(add_message(advance_phase(state, DOMAIN_SELECTION), "agent"),
              Item(FALSE, TRUE, Msg("domain_menu"), DOMAIN_SELECTION))
    ELSE Turn(state, Item(FALSE, TRUE, Msg("welcome"), INITIAL))

\* _handle_domain_selection, had it moved on without storing the domains
_handle_domain_selection_unstored(query, state) ==
    IF Parsed[query].domains # <<>>
    THEN Turn(add_message(advance_phase(state, LEVEL_ASSESSMENT), "agent"),
              Item(FALSE, TRUE, Msg("skill_level_menu"), LEVEL_ASSESSMENT))
    ELSE Turn(state, Item(FALSE, TRUE, Msg("domain_reprompt"), DOMAIN_SELECTION))

_handle_domain_selection(query, state) ==
    LET domains == Parsed[query].domains
    IN  IF domains # <<>>
        THEN Turn(add_message(
                      advance_phase([state EXCEPT !.user_inputs.domains = domains],
                                    LEVEL_ASSESSMENT), "agent"),
                  Item(FALSE, TRUE, Msg("skill_level_menu"), LEVEL_ASSESSMENT))
        ELSE Turn(state, Item(FALSE, TRUE, Msg("domain_reprompt"), DOMAIN_SELECTION))

\* _handle_level_assessment, had it skipped the preference question
_handle_level_assessment_skip(query, state) ==
    IF Parsed[query].skill_level # None
    THEN Turn(add_message(
                  advance_phase([state EXCEPT !.user_inputs.skill_level =
                                                  Parsed[query].skill_level],
                                READY_TO_PROCESS), "agent"),
              Item(FALSE, TRUE, Msg("preference_menu"), READY_TO_PROCESS))
    ELSE Turn(state, Item(FALSE, TRUE, Msg("skill_level_reprompt"), LEVEL_ASSESSMENT))

\* _handle_level_assessment, had it parsed the domains again from the
\* utterance that names the level
_handle_level_assessment_reparsing(query, state) ==
    IF Parsed[query].skill_level # None
    THEN Turn(add_message(
                  advance_phase([state EXCEPT
                                     !.user_inputs.skill_level = Parsed[query].skill_level,
                                     !.user_inputs.domains = Parsed[query].domains],
                                PREFERENCE_GATHERING), "agent"),
              Item(FALSE, TRUE, Msg("preference_menu"), PREFERENCE_GATHERING))
    ELSE Turn(state, Item(FALSE, TRUE, Msg("skill_level_reprompt"), LEVEL_ASSESSMENT))

_handle_level_assessment(query, state) ==
    LET level == Parsed[query].skill_level
    IN  IF level # None
        THEN Turn(add_message(
                      advance_phase([state EXCEPT !.user_inputs.skill_level = level],
                                    PREFERENCE_GATHERING), "agent"),
                  Item(FALSE, TRUE, Msg("preference_menu"), PREFERENCE_GATHERING))
        ELSE Turn(state, Item(FALSE, TRUE, Msg("skill_level_reprompt"), LEVEL_ASSESSMENT))

\* _handle_preference_gathering, had it not raised the confirmation flag
_handle_preference_gathering_unflagged(query, state) ==
    IF Parsed[query].preference # None
    THEN Turn(advance_phase(
                  add_message([state EXCEPT !.user_inputs.preference =
                                                Parsed[query].preference], "agent"),
                  READY_TO_PROCESS),
              Item(FALSE, TRUE, Msg("summary_confirm"), READY_TO_PROCESS))
    ELSE Turn(state, Item(FALSE, TRUE, Msg("preference_reprompt"), PREFERENCE_GATHERING))

_handle_preference_gathering(query, state) ==
    LET preference == Parsed[query].preference
        noted == add_message([state EXCEPT !.user_inputs.preference = preference], "agent")
    IN  IF preference # None
        THEN IF is_input_complete(noted)
             THEN Turn([advance_phase(noted, READY_TO_PROCESS)
                            EXCEPT !.awaiting_processing_confirmation = TRUE],
                       Item(FALSE, TRUE, Msg("summary_confirm"), READY_TO_PROCESS))
             ELSE Turn(noted, Item(FALSE, TRUE, Msg("still_missing"), PREFERENCE_GATHERING))
        ELSE Turn(state, Item(FALSE, TRUE, Msg("preference_reprompt"), PREFERENCE_GATHERING))

\* _handle_ready_to_process, had it advanced the phase on a confirmation
_handle_ready_to_process_advancing(query, state) ==
    IF Parsed[query].confirmation
    THEN Turn(advance_phase([state EXCEPT !.awaiting_processing_confirmation = FALSE],
                            ASYNC_PROCESSING),
              [Item(FALSE, FALSE, Msg("processing_request"), READY_TO_PROCESS)
                   EXCEPT !.trigger_async_processing = TRUE])
    ELSE Turn(state, Item(FALSE, TRUE, Msg("please_confirm"), READY_TO_PROCESS))

_handle_ready_to_process(query, state) ==
    IF Parsed[query].confirmation
    THEN Turn([state EXCEPT !.awaiting_processing_confirmation = FALSE],
              [Item(FALSE, FALSE, Msg("processing_request"), READY_TO_PROCESS)
                   EXCEPT !.trigger_async_processing = TRUE])
    ELSE Turn(state, Item(FALSE, TRUE, Msg("please_confirm"), READY_TO_PROCESS))

_handle_async_processing(query, state) ==
    Turn(state, Item(FALSE, FALSE, Msg("currently_processing"), ASYNC_PROCESSING))

_handle_plan_delivered(query, state) ==
    IF Parsed[query].satisfied
    THEN Turn([advance_phase(state, COMPLETED) EXCEPT !.satisfaction_confirmed = TRUE],
              Item(TRUE, FALSE, Msg("plan_complete"), COMPLETED))
    ELSE IF Parsed[query].refine
    THEN Turn(advance_phase(state, REFINEMENT_INPUT),
              Item(FALSE, TRUE, Msg("what_to_adjust"), REFINEMENT_INPUT))
    ELSE Turn(state, Item(FALSE, TRUE, Msg("satisfied_or_adjust"), PLAN_DELIVERED))

_handle_refinement_input(query, state) ==
    Turn(advance_phase([state EXCEPT !.refinement_requests = Append(@, query)],
                       REFINEMENT_PROCESSING),
         [Item(FALSE, FALSE, Msg("processing_adjustments"), REFINEMENT_PROCESSING)
              EXCEPT !.trigger_refinement_processing = TRUE])

_handle_refinement_processing(query, state) ==
    Turn(state, Item(FALSE, FALSE, Msg("processing_refinement"), REFINEMENT_PROCESSING))

_handle_completed_phase(query, state) ==
    Turn(state, Item(TRUE, FALSE, Msg("already_completed"), COMPLETED))

\* InterviewPrepAgent._get_conversation_state: retrieve, or create on first use
_get_conversation_state(states, context_id) ==
    IF context_id \in DOMAIN states THEN states
    ELSE states @@ (context_id :> ConversationState)

\* InterviewPrepAgent.stream: record the user message, dispatch on the phase
\* (a phase with no branch, PROCESSING_CONFIRMATION, yields nothing), save.
NoItem == [Item(FALSE, FALSE, Msg("nothing"), None) EXCEPT !.phase = "no item"]

\* the dispatch of stream() on the phase of the state
stream_phase(query, state) ==
    CASE state.phase = INITIAL -> _handle_initial_phase(query, state)
      [] state.phase = DOMAIN_SELECTION -> _handle_domain_selection(query, state)
      [] state.phase = LEVEL_ASSESSMENT -> _handle_level_assessment(query, state)
      [] state.phase = PREFERENCE_GATHERING -> _handle_preference_gathering(query, state)
      [] state.phase = READY_TO_PROCESS -> _handle_ready_to_process(query, state)
      [] state.phase = ASYNC_PROCESSING -> _handle_async_processing(query, state)
      [] state.phase = PLAN_DELIVERED -> _handle_plan_delivered(query, state)
      [] state.phase = REFINEMENT_INPUT -> _handle_refinement_input(query, state)
      [] state.phase = REFINEMENT_PROCESSING -> _handle_refinement_processing(query, state)
      [] state.phase = COMPLETED -> _handle_completed_phase(query, state)
      [] OTHER -> Turn(state, NoItem)

\* a save into one record that every context id shares
_save_conversation_state_shared(states, context_id, turn) ==
    [states |-> [c \in DOMAIN states |-> turn.state], item |-> turn.item]

\* InterviewPrepAgent._save_conversation_state, and the item the turn yielded
_save_conversation_state(states, context_id, turn) ==
    [states |-> [states EXCEPT ![context_id] = turn.state], item |-> turn.item]

\* stream() on the states in which context_id has its record
stream_known(states, query, context_id) ==
    _save_conversation_state(states, context_id,
        stream_phase(query, add_message(states[context_id], "user")))

stream(states, query, context_id) ==
    stream_known(_get_conversation_state(states, context_id), query, context_id)

(***************************************************************************)
(* InterviewPrepPushNotificationHandler: the callback URL.                 *)
(***************************************************************************)
PLACEHOLDER == <<"B","A","S","E","_","A","P","I","_","U","R","L">>
PLACEHOLDER_SLASH == PLACEHOLDER \o <<"/">>
HTTP == <<"h","t","t","p">>
HTTPS == <<"h","t","t","p","s">>

\* str.rstrip('/')
RECURSIVE rstrip_slash(_)
rstrip_slash(s) ==
    IF s # <<>> /\ s[Len(s)] = "/" THEN rstrip_slash(SubSeq(s, 1, Len(s) - 1)) ELSE s

\* str.replace(old, new): every occurrence, left to right
RECURSIVE replace(_, _, _)
replace(s, old, new) ==
    IF Len(s) < Len(old) THEN s
    ELSE IF SubSeq(s, 1, Len(old)) = old
    THEN new \o replace(SubSeq(s, Len(old) + 1, Len(s)), old, new)
    ELSE <<s[1]>> \o replace(Tail(s), old, new)

\* a resolution that puts the base address in front of every URL
_resolve_callback_url_prefixing(callback_url, base_api_url) ==
    IF base_api_url # <<>>
    THEN rstrip_slash(base_api_url) \o <<"/">> \o callback_url
    ELSE callback_url

\* base_api_url is os.getenv('BASE_API_URL'); <<>> when unset
_resolve_callback_url(callback_url, base_api_url) ==
    IF Contains(callback_url, PLACEHOLDER_SLASH)
    THEN IF base_api_url # <<>>
         THEN replace(callback_url, PLACEHOLDER, rstrip_slash(base_api_url))
         ELSE callback_url
    ELSE callback_url

\* urlparse(url): scheme and hostname, for URLs with no brackets, no
\* control characters and no user info
SCHEME_CHARS == Range(LOWER) \cup Range(UPPER) \cup Range(DIGITS) \cup {"+", "-", "."}

urlparse(url) ==
    LET i == FindFirst(url, {":"})
        has_scheme ==
            /\ i > 1
            /\ url[1] \in Range(LOWER) \cup Range(UPPER)
            /\ \A j \in 1..(i - 1) : url[j] \in SCHEME_CHARS
        scheme == IF has_scheme THEN lower(SubSeq(url, 1, i - 1)) ELSE <<>>
        rest == IF has_scheme THEN SubSeq(url, i + 1, Len(url)) ELSE url
        after == SubSeq(rest, 3, Len(rest))
        stop == FindFirst(after, {"/", "?", "#"})
        netloc ==
            IF Len(rest) >= 2 /\ SubSeq(rest, 1, 2) = <<"/", "/">>
            THEN IF stop = 0 THEN after ELSE SubSeq(after, 1, stop - 1)
            ELSE <<>>
        colon == FindFirst(netloc, {":"})
        host == IF colon = 0 THEN netloc ELSE SubSeq(netloc, 1, colon - 1)
    IN  [scheme |-> scheme, hostname |-> lower(host)]

_validate_callback_url(url) ==
    LET parsed == urlparse(url)
    IN  /\ parsed.scheme \in {HTTP, HTTPS}
        /\ parsed.hostname # <<>>

\* InterviewPrepPushNotificationSettings.enabled: ENABLE_PUSH_NOTIFICATIONS, 'true' by default
settings_enabled == TRUE

(***************************************************************************)
(* Requests.  A request carries an utterance and, optionally, a push       *)
(* notification config.                                                    *)
(***************************************************************************)
\* webhook_config.authentication: absent, or its list of schemes
NoAuthentication == [present |-> FALSE, schemes |-> <<>>]

Authentication(schemes) == [present |-> TRUE, schemes |-> schemes]

\* the lists of schemes a caller names
AuthSchemes == {<<"Bearer">>, <<"Basic">>, <<>>}

NoConfig == [present |-> FALSE, url |-> "", authentication |-> NoAuthentication]

\* the configs a caller sends that name no authentication
Configs ==
    {NoConfig}
        \cup {[present |-> TRUE, url |-> u, authentication |-> NoAuthentication] :
                  u \in CallbackUrls}

\* the config of a caller that names no authentication, as sent with an
\* utterance that cannot start a background task
PlainConfig ==
    [present |-> TRUE, url |-> "http://localhost:8080/webhook",
     authentication |-> NoAuthentication]

\* the configs sent with an utterance: only an utterance with a confirmation
\* word can reach the code that reads the URL of the config, and it is sent
\* with every config; the others are sent with and without a config
RequestConfigs(query) ==
    IF Parsed[query].confirmation THEN Configs ELSE {NoConfig, PlainConfig}

\* the configs of a caller that names authentication schemes or a URL with
\* the placeholder as host or inside the path
WebhookConfigs ==
    Configs
        \cup {[present |-> TRUE, url |-> u, authentication |-> NoAuthentication] :
                  u \in PlaceholderUrls}
        \cup {[present |-> TRUE, url |-> "http://localhost:8080/webhook",
                authentication |-> Authentication(schemes)] : schemes \in AuthSchemes}

\* events on the response queue of a request
TaskEvent == [type |-> "task", state |-> "submitted", final |-> FALSE, content |-> Msg("task")]

Status(state, final, content) ==
    [type |-> "status", state |-> state, final |-> final, content |-> content]

Artifact(name, content) ==
    [type |-> "artifact", state |-> name, final |-> FALSE, content |-> content]

\* TaskUpdater.complete()
Complete == Status("completed", TRUE, Msg("none"))

\* the background task handle_push_notification_request creates
NewWorker(task, context_id, callback_url, auth_config) ==
    [task |-> task,
     context_id |-> context_id,
     callback_url |-> callback_url,
     auth_config |-> auth_config,
     pc |-> "delay",
     gen |-> "uncalled",
     research_success |-> FALSE,
     plan_content |-> None,
     progress_steps |-> <<>>,
     final_response |-> None,
     error |-> None,
     deliveries |-> <<>>]

\* the end of handle_push_notification_request, on the resolved URL
start_background_processing(task, context_id, callback_url, auth_config) ==
    IF ~_validate_callback_url(callback_url) THEN <<>>
    ELSE <<NewWorker(task, context_id, callback_url, auth_config)>>

\* handle_push_notification_request: the workers it starts, none or one
handle_push_notification_request(task, webhook_config, context_id, base_api_url) ==
    IF ~settings_enabled THEN <<>>
    ELSE IF Chars(webhook_config.url) = <<>> THEN <<>>
    ELSE start_background_processing(
             task, context_id,
             _resolve_callback_url(Chars(webhook_config.url), base_api_url),
             webhook_config.authentication)

(***************************************************************************)
(* InterviewPrepAgentExecutor.                                             *)
(***************************************************************************)
Handled(states, events, spawned) ==
    [states |-> states, events |-> events, spawned |-> spawned]

\* the test of _should_start_async_processing on the state it retrieved
\* a pre-check that takes every utterance in READY_TO_PROCESS for a go-ahead
should_start_async_any(conversation_state, query) ==
    \/ conversation_state.phase = READY_TO_PROCESS
    \/ conversation_state.phase = REFINEMENT_PROCESSING

should_start_async(conversation_state, query) ==
    \/ /\ conversation_state.phase = READY_TO_PROCESS
       /\ Parsed[query].pre_check
    \/ conversation_state.phase = REFINEMENT_PROCESSING

_should_start_async_processing(states, context_id, query) ==
    should_start_async(_get_conversation_state(states, context_id)[context_id], query)

\* the refined plan text and the states with it stored
_generate_refined_plan(states, context_id) ==
    [states |-> [states EXCEPT ![context_id].plan_content = "refined_plan"],
     plan |-> "refined_plan"]

\* the refinement branch of _handle_standard_processing
refinement_processing(refined) ==
    Handled(refined.states,
            << Status("working", FALSE, Msg("processing_refinement_request")),
               Artifact("refined_interview_preparation_plan",
                        [id |-> "refined_plan", plan |-> refined.plan]),
               Complete >>, <<>>)

\* the body of the async for of _handle_standard_processing, on the item
\* the turn yielded
standard_processing_item(states, item, context_id) ==
    IF item.phase = NoItem.phase
    THEN Handled(states, <<>>, <<>>)
    ELSE IF item.trigger_async_processing
    THEN Handled(states,
                 <<Status("submitted", TRUE, Msg("submitted_for_processing"))>>, <<>>)
    ELSE IF item.trigger_refinement_processing
    THEN refinement_processing(_generate_refined_plan(states, context_id))
    ELSE IF ~item.is_task_complete /\ ~item.require_user_input
    THEN Handled(states, <<Status("working", FALSE, item.content)>>, <<>>)
    ELSE IF item.require_user_input
    THEN Handled(states, <<Status("input-required", TRUE, item.content)>>, <<>>)
    ELSE Handled(states,
                 <<Artifact("interview_preparation_result", item.content), Complete>>,
                 <<>>)

standard_processing_turn(turn, context_id) ==
    standard_processing_item(turn.states, turn.item, context_id)

_handle_standard_processing(states, task, context_id, query) ==
    standard_processing_turn(stream(states, query, context_id), context_id)

_handle_with_push_notifications(states, task, context_id, push_notification_config, query, base_api_url) ==
    IF _should_start_async_processing(states, context_id, query)
    THEN Handled(states,
                 << Status("submitted", FALSE, Msg("working_on_plan")),
                    Status("working", FALSE, Msg("searching_resources")) >>,
                 handle_push_notification_request(task, push_notification_config,
                                                  context_id, base_api_url))
    ELSE _handle_standard_processing(states, task, context_id, query)

\* execute() after the new task was enqueued, on the states in which
\* context_id has its record
execute_known(states, task, context_id, query, config, base_api_url) ==
    IF /\ _should_start_async_processing(states, context_id, query)
       /\ config.present /\ settings_enabled
    THEN _handle_with_push_notifications(states, task, context_id, config,
                                         query, base_api_url)
    ELSE _handle_standard_processing(states, task, context_id, query)

\* the events of a request, after the event enqueued first
Enqueued(event, handled) == [handled EXCEPT !.events = <<event>> \o @]

\* execute(): a request with no current task; the new task is enqueued first
execute(states, task, context_id, query, config, base_api_url) ==
    Enqueued(TaskEvent,
             execute_known(_get_conversation_state(states, context_id), task,
                           context_id, query, config, base_api_url))

(***************************************************************************)
(* The background worker.                                                  *)
(***************************************************************************)
\* positional arguments _process_async_interview_prep_request passes to
\* agent_response_generator
GeneratorCallArgs == 3
\* parameters _async_research_and_generate accepts after self
GeneratorParams == 2

Response(complete, input, content) ==
    [is_task_complete |-> complete, require_user_input |-> input, content |-> content]

\* how one POST of _send_callback ends: status 200, another status,
\* httpx.TimeoutException, httpx.RequestError, or any other exception
PostOutcomes == {"200", "non_200", "timeout", "request_error", "other_exception"}

\* _send_callback lets through every exception but the two httpx ones
_send_callback_raises(outcome) == outcome = "other_exception"

Delivery(kind, state, artifacts, message, outcome) ==
    [kind |-> kind, state |-> state, artifacts |-> artifacts, message |-> message,
     outcome |-> outcome]

\* the values A2A_CALLBACK_TOKEN takes; "" is unset
CallbackTokens == {"", "jwt"}

\* an Authorization header, and the headers without one
Authorization(scheme, credential) == [scheme |-> scheme, credential |-> credential]

NoAuthorization == Authorization(None, None)

\* _get_auth_headers: the Authorization header it returns
_get_auth_headers(auth_config) ==
    LET jwt_token == env_callback_token
    IN  IF jwt_token = "" THEN NoAuthorization
        ELSE IF auth_config.present
        THEN IF "Bearer" \in Range(auth_config.schemes)
             THEN Authorization("Bearer", jwt_token)
             ELSE IF "Basic" \in Range(auth_config.schemes)
             THEN Authorization("Basic", jwt_token)
             ELSE NoAuthorization
        ELSE Authorization("Bearer", jwt_token)

\* _send_callback: the POST of a payload, with the headers it builds
_send_callback(w, payload) ==
    [kind |-> payload.kind, state |-> payload.state, artifacts |-> payload.artifacts,
     message |-> payload.message, outcome |-> payload.outcome,
     authorization |-> IF w.auth_config.present
                       THEN _get_auth_headers(w.auth_config)
                       ELSE NoAuthorization]

\* _send_progress_update: one POST of a working-state task; it swallows every exception
_send_progress_update(w, progress_content, outcome) ==
    [w EXCEPT !.deliveries =
        Append(@, _send_callback(
                      w, Delivery("progress", "working", <<>>, progress_content, outcome)))]

_create_final_callback_payload(response, outcome) ==
    LET state == IF response.is_task_complete THEN "completed"
                 ELSE IF response.require_user_input THEN "input-required"
                 ELSE "working"
    IN  Delivery("final", state,
                 IF state = "completed" THEN <<response.content>> ELSE <<>>,
                 IF state = "input-required" THEN response.content ELSE Msg("none"),
                 outcome)

_create_error_callback_payload(outcome) ==
    Delivery("error", "input-required", <<>>, Msg("error_creating_plan"), outcome)

\* _async_research_and_generate, resumed where it last yielded: the worker
\* and the states after it ran to its next yield, and the response it yields.
\* research_ok is what comprehensive_research reports, render_ok whether
\* create_preparation_plan returns a plan or its error text.
_async_research_and_generate(w, states, research_ok, render_ok) ==
    LET got == _get_conversation_state(states, w.context_id)
        user_inputs == got[w.context_id].user_inputs
    IN  CASE w.gen = "start" ->
                [w |-> [w EXCEPT !.gen = "research"], states |-> got,
                 response |-> Response(FALSE, FALSE, Msg("collecting_resources"))]
          [] w.gen = "research" ->
                [w |-> [w EXCEPT !.gen = "plan",
                                 !.research_success =
                                     user_inputs.domains # <<>> /\ research_ok],
                 states |-> states,
                 response |-> Response(FALSE, FALSE, Msg("generating_plan"))]
          [] w.gen = "plan" ->
                [w |-> [w EXCEPT !.gen = "finalize",
                                 !.plan_content =
                                     IF w.research_success
                                     THEN IF render_ok THEN "researched_plan"
                                          ELSE "plan_error_text"
                                     ELSE "fallback_plan"],
                 states |-> states,
                 response |-> Response(FALSE, FALSE, Msg("finalizing_roadmap"))]
          [] w.gen = "finalize" ->
                [w |-> [w EXCEPT !.gen = "yielded_final"],
                 states |-> [states EXCEPT ![w.context_id] =
                                [advance_phase(@, PLAN_DELIVERED)
                                     EXCEPT !.plan_content = w.plan_content,
                                            !.plan_generated = TRUE]],
                 response |-> Response(FALSE, TRUE,
                                       [id |-> "plan_ready", plan |-> w.plan_content])]

\* the except branch, had it logged the error and sent nothing
send_error_callback_silent(w, outcome) == [w EXCEPT !.pc = "done"]

\* the except branch, had it sent the error payload again after a POST that failed
send_error_callback_retry(w, outcome) ==
    [w EXCEPT !.deliveries =
                  IF outcome = "200"
                  THEN Append(@, _send_callback(w, _create_error_callback_payload(outcome)))
                  ELSE Append(Append(@, _send_callback(
                                            w, _create_error_callback_payload(outcome))),
                              _send_callback(w, _create_error_callback_payload("200"))),
              !.pc = "done"]

\* the except branch of _process_async_interview_prep_request: one POST of
\* the error payload; what that POST raises is logged and dropped
send_error_callback(w, outcome) ==
    [w EXCEPT !.deliveries =
                  Append(@, _send_callback(w, _create_error_callback_payload(outcome))),
              !.pc = "done"]

\* the final payload and its POST; an exception of the POST reaches the
\* except branch
send_final_callback(w, outcome) ==
    [w EXCEPT !.deliveries =
                  Append(@, _send_callback(
                                w, _create_final_callback_payload(w.final_response, outcome))),
              !.error = IF _send_callback_raises(outcome) THEN "Exception" ELSE None,
              !.pc = IF _send_callback_raises(outcome) THEN "except" ELSE "done"]

\* calling agent_response_generator(query, context_id, request_metadata)
\* raises TypeError when the generator takes another number of arguments
call_raises_TypeError == GeneratorCallArgs # GeneratorParams

\* One step of _process_async_interview_prep_request, from one await to the
\* next.  delay: the initial sleep.  iterate: the async for asks the
\* generator for its next response; the first time it calls it, with
\* GeneratorCallArgs arguments, which raises TypeError unless the generator
\* accepts that many.  progress: the progress POST and the sleep after it.
\* final: the final payload and its POST.  except: the error payload and
\* its POST, whose exceptions are swallowed.
_process_async_interview_prep_request(w, states, outcome, research_ok, render_ok) ==
    LET called == IF w.gen = "uncalled" THEN [w EXCEPT !.gen = "start"] ELSE w
        ran == _async_research_and_generate(called, states, research_ok, render_ok)
        response == ran.response
        stepped == [ran.w EXCEPT !.progress_steps = Append(@, response)]
    IN  CASE w.pc = "delay" ->
                [w |-> [w EXCEPT !.pc = "iterate"], states |-> states]
          [] w.pc = "iterate" ->
                IF w.gen = "uncalled" /\ call_raises_TypeError
                THEN [w |-> [w EXCEPT !.pc = "except", !.error = "TypeError"],
                      states |-> states]
                ELSE IF /\ ~response.is_task_complete
                        /\ ~response.require_user_input
                        /\ response.content # Msg("")
                THEN [w |-> [stepped EXCEPT !.pc = "progress"], states |-> ran.states]
                ELSE IF response.is_task_complete \/ response.require_user_input
                THEN [w |-> [stepped EXCEPT !.pc = "final", !.final_response = response],
                      states |-> ran.states]
                ELSE [w |-> stepped, states |-> ran.states]
          [] w.pc = "progress" ->
                [w |-> [_send_progress_update(
                            w, w.progress_steps[Len(w.progress_steps)].content, outcome)
                            EXCEPT !.pc = "iterate"],
                 states |-> states]
          [] w.pc = "final" ->
                [w |-> send_final_callback(w, outcome), states |-> states]
          [] w.pc = "except" ->
                [w |-> send_error_callback(w, outcome), states |-> states]

(***************************************************************************)
(* The state machine.                                                      *)
(***************************************************************************)
Contexts == {"ctx1", "ctx2"}


NoRequest ==
    [task |-> 0, context_id |-> None, query |-> None, config |-> NoConfig,
     phase_before |-> None, events |-> <<>>, spawned |-> FALSE]

Init ==
    /\ conversation_states = <<>>
    /\ workers = <<>>
    /\ env_base_api_url \in BaseApiUrls
    /\ env_callback_token \in CallbackTokens
    /\ last_request = NoRequest
    /\ requests = 0

\* a caller sends utterance query on context_id, with or without a config
Responded(context_id, query, config, phase_before, handled) ==
    /\ requests < MaxRequests
    /\ Len(workers) + Len(handled.spawned) <= MaxWorkers
    /\ conversation_states' = handled.states
    /\ workers' = workers \o handled.spawned
    /\ last_request' =
           [task |-> requests + 1, context_id |-> context_id, query |-> query,
            config |-> config, phase_before |-> phase_before,
            events |-> handled.events, spawned |-> handled.spawned # <<>>]
    /\ requests' = requests + 1
    /\ UNCHANGED <<env_base_api_url, env_callback_token>>

\* the phase of context_id when a request on it arrives
PhaseBefore(context_id) ==
    _get_conversation_state(conversation_states, context_id)[context_id].phase

Execute(context_id, query, config) ==
    Responded(context_id, query, config, PhaseBefore(context_id),
              execute(conversation_states, requests + 1, context_id, query, config,
                      env_base_api_url))

\* the event loop resumes background task i
WorkerStep(i) ==
    /\ workers[i].pc # "done"
    /\ \E outcome \in (IF workers[i].pc \in {"progress", "final", "except"}
                       THEN PostOutcomes ELSE {"200"}),
          research_ok \in (IF workers[i].gen = "research" /\ workers[i].pc = "iterate"
                           THEN BOOLEAN ELSE {TRUE}),
          render_ok \in (IF workers[i].gen = "plan" /\ workers[i].pc = "iterate"
                         THEN BOOLEAN ELSE {TRUE}) :
          LET step == _process_async_interview_prep_request(
                          workers[i], conversation_states, outcome, research_ok, render_ok)
          IN  /\ workers' = [workers EXCEPT ![i] = step.w]
              /\ conversation_states' = step.states
    /\ UNCHANGED <<env_base_api_url, env_callback_token, last_request, requests>>

Next ==
    \/ \E context_id \in Contexts, query \in Utterances :
           \E config \in RequestConfigs(query) : Execute(context_id, query, config)
    \/ \E i \in 1..Len(workers) : WorkerStep(i)

Spec == Init /\ [][Next]_vars

\* The server with one caller on one context, whose confirmations carry any
\* of the configs of WebhookConfigs.
ExecuteWebhook(query, config) == Execute("ctx1", query, config)

NextWebhook ==
    \/ \E query \in Utterances :
           \E config \in (IF Parsed[query].confirmation THEN WebhookConfigs
                           ELSE {NoConfig}) :
               ExecuteWebhook(query, config)
    \/ \E i \in 1..Len(workers) : WorkerStep(i)

SpecWebhook == Init /\ [][NextWebhook]_vars

\* The server with one caller on one context whose utterances include those
\* of AllWordUtterances and OtherInputUtterances, with and without a config.
ExecuteTurn(query, config) == Execute("ctx1", query, config)

NextTurns ==
    \/ \E query \in TurnUtterances :
           \E config \in {NoConfig, PlainConfig} : ExecuteTurn(query, config)
    \/ \E i \in 1..Len(workers) : WorkerStep(i)

SpecTurns == Init /\ [][NextTurns]_vars

\* The server with one caller on one context whose confirmations carry every
\* callback URL, under every value of BASE_API_URL, among them an address
\* whose own path holds the text BASE_API_URL/.
ResolveBaseApiUrls ==
    BaseApiUrls \cup
    { HTTP \o <<":","/","/","a","p","i",".","e","x","a","m","p","l","e",".","c","o","m","/">>
           \o PLACEHOLDER_SLASH }

ResolveUrls == CallbackUrls \cup PlaceholderUrls

ResolveConfigs ==
    {[present |-> TRUE, url |-> u, authentication |-> NoAuthentication] : u \in ResolveUrls}

InitResolve ==
    /\ conversation_states = <<>>
    /\ workers = <<>>
    /\ env_base_api_url \in ResolveBaseApiUrls
    /\ env_callback_token \in CallbackTokens
    /\ last_request = NoRequest
    /\ requests = 0

ExecuteResolve(query, config) == Execute("ctx1", query, config)

NextResolve ==
    \/ \E query \in Utterances :
           \E config \in (IF Parsed[query].confirmation THEN ResolveConfigs
                           ELSE {NoConfig}) :
               ExecuteResolve(query, config)
    \/ \E i \in 1..Len(workers) : WorkerStep(i)

SpecResolve == InitResolve /\ [][NextResolve]_vars

\* The server with one caller on one context whose requests may name the task
\* of the request before (context.current_task): execute() then enqueues no
\* new task and its status updates go to the task named.  A task ended by
\* complete() takes no further message.
TerminalStates == {"completed", "failed"}

CurrentTaskOpen ==
    /\ last_request.task # 0
    /\ last_request.events # <<>>
    /\ last_request.events[Len(last_request.events)].state \notin TerminalStates

RespondedOn(task, context_id, query, config, phase_before, handled) ==
    /\ CurrentTaskOpen
    /\ last_request.context_id = context_id
    /\ requests < MaxRequests
    /\ Len(workers) + Len(handled.spawned) <= MaxWorkers
    /\ conversation_states' = handled.states
    /\ workers' = workers \o handled.spawned
    /\ last_request' =
           [task |-> task, context_id |-> context_id, query |-> query,
            config |-> config, phase_before |-> phase_before,
            events |-> handled.events, spawned |-> handled.spawned # <<>>]
    /\ requests' = requests + 1
    /\ UNCHANGED <<env_base_api_url, env_callback_token>>

ExecuteCurrentTask(context_id, query, config) ==
    RespondedOn(last_request.task, context_id, query, config, PhaseBefore(context_id),
                execute_known(_get_conversation_state(conversation_states, context_id),
                              last_request.task, context_id, query, config,
                              env_base_api_url))

ExecuteNewTask(query, config) == Execute("ctx1", query, config)

NextTasks ==
    \/ \E query \in Utterances :
           \E config \in {NoConfig, PlainConfig} : ExecuteNewTask(query, config)
    \/ \E query \in Utterances :
           \E config \in {NoConfig, PlainConfig} :
               ExecuteCurrentTask("ctx1", query, config)
    \/ \E i \in 1..Len(workers) : WorkerStep(i)

SpecTasks == Init /\ [][NextTasks]_vars

(***************************************************************************)
(* Properties.                                                             *)
(***************************************************************************)
Workers == {workers[i] : i \in 1..Len(workers)}

\* a delivery of the final payload or of the error payload
Terminal(d) == d.kind \in {"final", "error"}

TerminalDeliveries(w) == {k \in 1..Len(w.deliveries) : Terminal(w.deliveries[k])}

IsProgressDelivery(d) == d.kind = "progress"

IsProgressResponse(r) == ~r.is_task_complete /\ ~r.require_user_input

\* the last request was an affirmative utterance on a context in READY_TO_PROCESS
LastWasConfirmation ==
    /\ last_request.task # 0
    /\ last_request.phase_before = READY_TO_PROCESS
    /\ Parsed[last_request.query].confirmation

\* the response of the last request ends with a final event and carries a plan
LastResponseHasPlan ==
    /\ last_request.events # <<>>
    /\ last_request.events[Len(last_request.events)].final
    /\ \E k \in 1..Len(last_request.events) : last_request.events[k].content.plan # None

\* the URL of the config is missing, or fails resolution or validation
InvalidCallbackUrl(url) ==
    \/ Chars(url) = <<>>
    \/ ~_validate_callback_url(_resolve_callback_url(Chars(url), env_base_api_url))

PhasesFromPlanDelivered ==
    {PLAN_DELIVERED, REFINEMENT_INPUT, REFINEMENT_PROCESSING, COMPLETED}

\* a synchronous turn on the context sees the plan delivered
PlanVisible(context_id) ==
    /\ conversation_states[context_id].phase \in PhasesFromPlanDelivered
    /\ conversation_states[context_id].plan_generated
    /\ conversation_states[context_id].plan_content # None

\* C1: a confirmation in READY_TO_PROCESS on a request with no push
\* notification config is answered with a final response that contains the
\* plan, and starts no background delivery.
C1_SyncFallbackReturnsPlan ==
    (LastWasConfirmation /\ ~last_request.config.present)
        => (LastResponseHasPlan /\ ~last_request.spawned)

\* C2: a confirmation in READY_TO_PROCESS with a valid config is answered
\* with a submitted status, and the run it starts attempts exactly one
\* delivery in state completed or input-required, which carries the plan as
\* an artifact.
C2_OneTerminalDeliveryWithPlanArtifact ==
    /\ last_request.spawned
           => \E k \in 1..Len(last_request.events) :
                  /\ last_request.events[k].type = "status"
                  /\ last_request.events[k].state = "submitted"
    /\ \A w \in Workers :
           w.pc = "done" =>
               /\ Cardinality({k \in 1..Len(w.deliveries) :
                       w.deliveries[k].state \in {"completed", "input-required"}}) = 1
               /\ \A k \in 1..Len(w.deliveries) :
                      w.deliveries[k].state \in {"completed", "input-required"}
                          => \E a \in 1..Len(w.deliveries[k].artifacts) :
                                 w.deliveries[k].artifacts[a].plan # None

\* C3: a run that has ended (research and rendering never raise) has stored
\* the plan, set plan_generated and moved the context to PLAN_DELIVERED.
C3_RunStoresPlan ==
    \A w \in Workers : w.pc = "done" => PlanVisible(w.context_id)

\* C4: at most one background worker is in flight for a context at any time.
C4_AtMostOneWorkerInFlight ==
    \A c \in Contexts :
        Cardinality({i \in 1..Len(workers) :
            workers[i].context_id = c /\ workers[i].pc # "done"}) <= 1

\* C5: the request that hands off to a background worker leaves the stored
\* phase of its context at ASYNC_PROCESSING.
C5_HandoffAdvancesPhase ==
    [][Len(workers') > Len(workers)
          => conversation_states'[last_request'.context_id].phase = ASYNC_PROCESSING]_vars

C7_OneTerminalDeliveryOnFault ==
    \A w \in Workers :
        w.error # None =>
            /\ Cardinality(TerminalDeliveries(w)) <= 1
            /\ w.pc = "done" => Cardinality(TerminalDeliveries(w)) = 1
            /\ ~(/\ \E k \in 1..Len(w.deliveries) : w.deliveries[k].kind = "final"
                 /\ \E k \in 1..Len(w.deliveries) : w.deliveries[k].kind = "error")

C7_Witness ==
    \E w \in Workers :
        /\ w.error = "TypeError"
        /\ w.pc = "done"
        /\ Cardinality(TerminalDeliveries(w)) = 1
        /\ w.deliveries[Len(w.deliveries)].outcome # "200"

C9_PlanStoredBeforeTerminalDelivery ==
    \A w \in Workers : TerminalDeliveries(w) # {} => PlanVisible(w.context_id)

\* C10: a confirmation in READY_TO_PROCESS whose config has a missing or
\* invalid URL is answered with a final response that contains the plan.
C10_InvalidUrlFallsBackToSync ==
    (LastWasConfirmation /\ last_request.config.present
         /\ InvalidCallbackUrl(last_request.config.url))
        => LastResponseHasPlan

\* C11: while BASE_API_URL is not set, no POST is made to a callback URL
\* that contains the placeholder.
C11_PlaceholderNeverDialed ==
    env_base_api_url = <<>> =>
        \A w \in Workers :
            Contains(w.callback_url, PLACEHOLDER) => w.deliveries = <<>>

\* the scheme of the Authorization header a caller's authentication asks for
RequestedScheme(auth_config) ==
    IF /\ auth_config.present
       /\ "Basic" \in Range(auth_config.schemes)
       /\ "Bearer" \notin Range(auth_config.schemes)
    THEN "Basic" ELSE "Bearer"

\* C12: while A2A_CALLBACK_TOKEN is set, every delivery carries the header
\* Authorization: Basic <token> if the caller asked for Basic, and
\* Authorization: Bearer <token> if it asked for Bearer or named no scheme.
C12_AuthorizationByScheme ==
    env_callback_token # "" =>
        \A w \in Workers :
            \A k \in 1..Len(w.deliveries) :
                w.deliveries[k].authorization =
                    Authorization(RequestedScheme(w.auth_config), env_callback_token)

\* the events a run has produced: the responses the generator yielded and
\* the error that reached the except branch
EventsProduced(w) == Len(w.progress_steps) + (IF w.error # None THEN 1 ELSE 0)

DeliveriesOfKind(w, kind) ==
    Cardinality({k \in 1..Len(w.deliveries) : w.deliveries[k].kind = kind})

\* C13: a run makes at most one POST for each event: no more POSTs than
\* events, no more progress POSTs than progress responses, at most one POST
\* of the final payload and one of the error payload, and a POST that did
\* not end with status 200 is not followed by a POST of the same payload.
C13_OnePostPerEvent ==
    \A w \in Workers :
        /\ Len(w.deliveries) <= EventsProduced(w)
        /\ DeliveriesOfKind(w, "progress")
               <= Len(SelectSeq(w.progress_steps, IsProgressResponse))
        /\ DeliveriesOfKind(w, "final") <= 1
        /\ DeliveriesOfKind(w, "error") <= (IF w.error # None THEN 1 ELSE 0)
        /\ \A k \in 1..(Len(w.deliveries) - 1) :
               w.deliveries[k].outcome # "200" =>
                   ~(/\ w.deliveries[k + 1].kind = w.deliveries[k].kind
                     /\ w.deliveries[k + 1].message = w.deliveries[k].message)

C13_Witness ==
    \E w \in Workers :
        /\ w.pc = "done"
        /\ Len(w.deliveries) = 1
        /\ w.deliveries[1].outcome \in {"non_200", "timeout", "request_error"}

\* the edges of the chain of phases
ChainEdges ==
    { <<INITIAL, DOMAIN_SELECTION>>,
      <<DOMAIN_SELECTION, LEVEL_ASSESSMENT>>,
      <<LEVEL_ASSESSMENT, PREFERENCE_GATHERING>>,
      <<PREFERENCE_GATHERING, READY_TO_PROCESS>>,
      <<READY_TO_PROCESS, ASYNC_PROCESSING>>,
      <<ASYNC_PROCESSING, PLAN_DELIVERED>>,
      <<PLAN_DELIVERED, REFINEMENT_INPUT>>,
      <<REFINEMENT_INPUT, REFINEMENT_PROCESSING>>,
      <<REFINEMENT_PROCESSING, PLAN_DELIVERED>>,
      <<PLAN_DELIVERED, COMPLETED>> }

\* the stored phase of a context; a context not yet seen starts in INITIAL
PhaseOf(states, context_id) ==
    IF context_id \in DOMAIN states THEN states[context_id].phase ELSE INITIAL

\* the stored inputs of a context
InputsOf(states, context_id) ==
    IF context_id \in DOMAIN states THEN states[context_id].user_inputs
    ELSE ConversationState.user_inputs

\* C15: every step that changes the stored phase of a context, a request or
\* a step of a background task, follows an edge of the chain.
C15_PhaseChain ==
    [][\A c \in Contexts :
           PhaseOf(conversation_states', c) # PhaseOf(conversation_states, c)
               => <<PhaseOf(conversation_states, c), PhaseOf(conversation_states', c)>>
                      \in ChainEdges]_vars

C15_Witness ==
    \E c \in DOMAIN conversation_states :
        /\ conversation_states[c].phase = READY_TO_PROCESS
        /\ \E k \in 1..Len(conversation_states[c].messages_history) :
               conversation_states[c].messages_history[k] =
                   [role |-> "user", phase |-> PREFERENCE_GATHERING]

\* the utterance matches nothing of what the phase parses
ParseFails(phase, query) ==
    CASE phase = INITIAL -> ~Parsed[query].intent
      [] phase = DOMAIN_SELECTION -> Parsed[query].domains = <<>>
      [] phase = LEVEL_ASSESSMENT -> Parsed[query].skill_level = None
      [] phase = PREFERENCE_GATHERING -> Parsed[query].preference = None
      [] phase = READY_TO_PROCESS -> ~Parsed[query].confirmation
      [] phase = PLAN_DELIVERED -> ~Parsed[query].satisfied /\ ~Parsed[query].refine
      [] OTHER -> FALSE

\* the response of the last request ends with a final input-required status
LastResponseRequiresInput ==
    /\ last_request.events # <<>>
    /\ last_request.events[Len(last_request.events)].final
    /\ last_request.events[Len(last_request.events)].state = "input-required"

\* C17: a request whose utterance fails the parse of the phase its context
\* is in leaves the phase and the collected inputs as they were and is
\* answered with a final input-required status.
C17_ParseFailureKeepsState ==
    [][(/\ requests' = requests + 1
        /\ ParseFails(last_request'.phase_before, last_request'.query))
          => /\ PhaseOf(conversation_states', last_request'.context_id)
                    = last_request'.phase_before
             /\ InputsOf(conversation_states', last_request'.context_id)
                    = InputsOf(conversation_states, last_request'.context_id)
             /\ LastResponseRequiresInput']_vars

C17_Witness ==
    /\ last_request.task # 0
    /\ last_request.phase_before = DOMAIN_SELECTION
    /\ ParseFails(DOMAIN_SELECTION, last_request.query)
    /\ conversation_states[last_request.context_id].phase = DOMAIN_SELECTION
    /\ LastResponseRequiresInput

\* the last request was a preference turn whose parse succeeded
LastWasPreference ==
    /\ last_request.task # 0
    /\ last_request.phase_before = PREFERENCE_GATHERING
    /\ Parsed[last_request.query].preference # None

\* C18: a turn in PREFERENCE_GATHERING whose preference parse succeeds and
\* leaves the inputs complete moves the phase to READY_TO_PROCESS and sets
\* awaiting_processing_confirmation.
C18_CompleteInputsReachReady ==
    (LastWasPreference /\ is_input_complete(conversation_states[last_request.context_id]))
        => /\ conversation_states[last_request.context_id].phase = READY_TO_PROCESS
           /\ conversation_states[last_request.context_id].awaiting_processing_confirmation

C18_Witness ==
    /\ LastWasPreference
    /\ conversation_states[last_request.context_id].user_inputs.preference
           = Parsed[last_request.query].preference
    /\ conversation_states[last_request.context_id].phase = READY_TO_PROCESS
    /\ conversation_states[last_request.context_id].awaiting_processing_confirmation

\* the turn sets the trigger exactly on a confirmation and keeps the phase
TriggersOnConfirmationOnly(turn, query, context_id) ==
    /\ turn.item.trigger_async_processing = Parsed[query].confirmation
    /\ turn.states[context_id].phase = READY_TO_PROCESS

\* C19: a turn of the agent on a context in READY_TO_PROCESS sets
\* trigger_async_processing if and only if the utterance is a confirmation,
\* and leaves the phase READY_TO_PROCESS.
C19_TriggerOnlyOnConfirmation ==
    \A c \in DOMAIN conversation_states :
        conversation_states[c].phase = READY_TO_PROCESS =>
            \A query \in Utterances :
                TriggersOnConfirmationOnly(stream(conversation_states, query, c), query, c)

C19_Witness ==
    /\ LastWasConfirmation
    /\ ~last_request.config.present
    /\ \E k \in 1..Len(last_request.events) :
           last_request.events[k].content = Msg("submitted_for_processing")
    /\ conversation_states[last_request.context_id].phase = READY_TO_PROCESS
    /\ ~conversation_states[last_request.context_id].awaiting_processing_confirmation

\* the states after each of the four turns of the test conversation on context_id
AfterIntent(context_id) ==
    stream(conversation_states, "I want to prepare for interviews", context_id).states

AfterDomains(context_id) ==
    stream(AfterIntent(context_id), "algorithms and system design", context_id).states

AfterLevel(context_id) ==
    stream(AfterDomains(context_id), "intermediate", context_id).states

AfterPreference(context_id) ==
    stream(AfterLevel(context_id), "balanced", context_id).states

TestInputs ==
    [domains |-> <<"algorithms", "system_design">>,
     skill_level |-> "intermediate", preference |-> "balanced"]

\* C20: on a context id not used before, the four turns of the test
\* conversation move the phase one step each, INITIAL to DOMAIN_SELECTION to
\* LEVEL_ASSESSMENT to PREFERENCE_GATHERING to READY_TO_PROCESS, and leave
\* the inputs algorithms and system_design, intermediate, balanced.
C20_FourTurnsReachReady ==
    \A c \in Contexts \ DOMAIN conversation_states :
        /\ PhaseOf(conversation_states, c) = INITIAL
        /\ AfterIntent(c)[c].phase = DOMAIN_SELECTION
        /\ AfterDomains(c)[c].phase = LEVEL_ASSESSMENT
        /\ AfterLevel(c)[c].phase = PREFERENCE_GATHERING
        /\ AfterPreference(c)[c].phase = READY_TO_PROCESS
        /\ AfterPreference(c)[c].user_inputs = TestInputs

C20_Witness ==
    \E c \in DOMAIN conversation_states :
        /\ conversation_states[c].phase = READY_TO_PROCESS
        /\ conversation_states[c].user_inputs = TestInputs
        /\ Len(conversation_states[c].messages_history) = 8
        /\ last_request.context_id = c
        /\ last_request.query = "balanced"

(***************************************************************************)
(* C21: in DOMAIN_SELECTION an utterance with the standalone word "all"    *)
(* anywhere in it, on whichever line, stores all seven domains and moves   *)
(* the conversation to LEVEL_ASSESSMENT.                                   *)
(***************************************************************************)
HasWordAll(query) == re_search_all(lower(Chars(query)))

C21_AllAnywhereSelectsAllDomains ==
    (/\ last_request.phase_before = DOMAIN_SELECTION
     /\ HasWordAll(last_request.query))
        => /\ InputsOf(conversation_states, last_request.context_id).domains = ALL_DOMAINS
           /\ PhaseOf(conversation_states, last_request.context_id) = LEVEL_ASSESSMENT

(***************************************************************************)
(* C27: every request, on every path of execute, runs one turn of the      *)
(* controller: the utterance is recorded in the history of its context     *)
(* exactly once.                                                           *)
(***************************************************************************)
UserMessages(states, context_id) ==
    IF context_id \in DOMAIN states
    THEN Len(SelectSeq(states[context_id].messages_history,
                       LAMBDA m : m.role = "user"))
    ELSE 0

C27_OneTurnPerRequest ==
    [][requests' = requests + 1 =>
           UserMessages(conversation_states', last_request'.context_id)
               = UserMessages(conversation_states, last_request'.context_id) + 1]_vars

(***************************************************************************)
(* C30: resolving a callback URL twice gives what resolving it once gives, *)
(* for every URL when BASE_API_URL is unset or is an http(s) address with  *)
(* no capital letter and no underscore; and a URL without the text         *)
(* BASE_API_URL/ is returned unchanged under every base address.  Every    *)
(* URL a background task dials is then a fixed point of the resolution.    *)
(***************************************************************************)
resolve(url) == _resolve_callback_url(url, env_base_api_url)

PlainAddress(base) ==
    \/ base = <<>>
    \/ /\ Len(base) >= 4
       /\ SubSeq(base, 1, 4) = HTTP
       /\ Range(base) \cap (Range(UPPER) \cup {"_"}) = {}

C30_ResolveIdempotent ==
    /\ \A u \in ResolveUrls :
           /\ PlainAddress(env_base_api_url)
                  => resolve(resolve(Chars(u))) = resolve(Chars(u))
           /\ ~Contains(Chars(u), PLACEHOLDER_SLASH) => resolve(Chars(u)) = Chars(u)
    /\ \A w \in Workers :
           PlainAddress(env_base_api_url) => resolve(w.callback_url) = w.callback_url

\* a background task dials a URL in which the resolution put the base address
C30_Witness ==
    /\ env_base_api_url # <<>>
    /\ PlainAddress(env_base_api_url)
    /\ last_request.spawned
    /\ Contains(Chars(last_request.config.url), PLACEHOLDER_SLASH)
    /\ workers[Len(workers)].callback_url = resolve(Chars(last_request.config.url))
    /\ workers[Len(workers)].callback_url # Chars(last_request.config.url)
    /\ workers[Len(workers)].deliveries # <<>>

\* C30 as stated, for the URLs the server resolved: under every base address,
\* resolving the callback URL of a request twice gives what resolving it once
\* gives, and every URL a background task dials is a fixed point
C30_ResolveIdempotentForEveryBase ==
    /\ (/\ last_request.config.present
        /\ last_request.phase_before = READY_TO_PROCESS
        /\ Parsed[last_request.query].confirmation)
           => resolve(resolve(Chars(last_request.config.url)))
                  = resolve(Chars(last_request.config.url))
    /\ \A w \in Workers : resolve(w.callback_url) = w.callback_url

(***************************************************************************)
(* C31: the statuses a task is given, by the status updates of its         *)
(* requests and by the deliveries of its run, never go back in the order   *)
(* submitted, working, input-required, completed, failed; also when a      *)
(* later request continues the task.                                       *)
(***************************************************************************)
StatusRank(state) ==
    CASE state = "submitted" -> 1
      [] state = "working" -> 2
      [] state = "input-required" -> 3
      [] state = "completed" -> 4
      [] state = "failed" -> 5

\* the statuses among the events of a request
Statuses(events) ==
    LET given == SelectSeq(events, LAMBDA e : e.type \in {"task", "status"})
    IN  [i \in 1..Len(given) |-> given[i].state]

Forward(statuses) ==
    \A i, j \in 1..Len(statuses) :
        i < j => StatusRank(statuses[i]) <= StatusRank(statuses[j])

C31_StatusMovesForward ==
    [][/\ Forward(Statuses(last_request'.events))
       /\ \A w \in {workers'[i] : i \in 1..Len(workers')} :
              Forward(<<"working">> \o [i \in 1..Len(w.deliveries) |-> w.deliveries[i].state])
       /\ (requests' = requests + 1 /\ last_request'.task = last_request.task)
              => Forward(Statuses(last_request.events) \o Statuses(last_request'.events))]_vars

(***************************************************************************)
(* C32: a request or a step of a background task for one context id leaves *)
(* the record of every other context id as it was, and wherever a          *)
(* background task of one context id takes a step, a request for another   *)
(* context id can be handled.                                              *)
(***************************************************************************)
\* the context ids the step acts for
Stepped ==
    IF requests' # requests THEN {last_request'.context_id}
    ELSE {workers[i].context_id : i \in {j \in 1..Len(workers) : workers'[j] # workers[j]}}

InFlight(context_id) == \E w \in Workers : w.context_id = context_id /\ w.pc # "done"

C32_ContextsIndependent ==
    [][/\ \A b \in Contexts \ Stepped :
              IF b \in DOMAIN conversation_states
              THEN /\ b \in DOMAIN conversation_states'
                   /\ conversation_states'[b] = conversation_states[b]
              ELSE b \notin DOMAIN conversation_states'
       /\ \A a, b \in Contexts :
              (a # b /\ requests' = requests /\ a \in Stepped /\ requests < MaxRequests)
                  => \A query \in Utterances : ENABLED Execute(b, query, NoConfig)]_vars

\* a request of ctx2 was answered while a background task of ctx1 was in
\* flight, and both contexts have their own record
C32_Witness ==
    /\ InFlight("ctx1")
    /\ last_request.context_id = "ctx2"
    /\ last_request.task > workers[1].task
    /\ workers[1].context_id = "ctx1"
    /\ last_request.events[Len(last_request.events)].final
    /\ conversation_states["ctx2"].phase = DOMAIN_SELECTION
    /\ conversation_states["ctx1"].phase = READY_TO_PROCESS

(***************************************************************************)
(* C33: a context whose phase is past the gathering phases has complete    *)
(* inputs: domains, a skill level and a preference.                        *)
(***************************************************************************)
PastGathering ==
    {READY_TO_PROCESS, ASYNC_PROCESSING, PLAN_DELIVERED, REFINEMENT_INPUT,
     REFINEMENT_PROCESSING, COMPLETED}

C33_PastGatheringHasCompleteInputs ==
    \A c \in DOMAIN conversation_states :
        conversation_states[c].phase \in PastGathering
            => is_input_complete(conversation_states[c])

\* one context is past gathering with complete inputs, its handoff made and
\* its run over, while the other is still gathering with inputs missing
C33_Witness ==
    \E c, g \in DOMAIN conversation_states :
        /\ conversation_states[c].phase \in PastGathering
        /\ is_input_complete(conversation_states[c])
        /\ \E w \in Workers : w.context_id = c /\ w.pc = "done"
        /\ conversation_states[g].phase = DOMAIN_SELECTION
        /\ ~is_input_complete(conversation_states[g])

(***************************************************************************)
(* C34: once the domains, the skill level or the preference of a context   *)
(* is set, no later request and no step of a background task clears it or  *)
(* gives it another value.                                                 *)
(***************************************************************************)
C34_InputsFilledMonotonically ==
    [][\A c \in DOMAIN conversation_states :
           LET before == conversation_states[c].user_inputs
               after == conversation_states'[c].user_inputs
           IN  /\ c \in DOMAIN conversation_states'
               /\ before.domains # <<>> => after.domains = before.domains
               /\ before.skill_level # None => after.skill_level = before.skill_level
               /\ before.preference # None => after.preference = before.preference]_vars

\* all three inputs are set and a further request on the context, naming all
\* domains, left them
C34_Witness ==
    \E c \in DOMAIN conversation_states :
        /\ conversation_states[c].user_inputs = TestInputs
        /\ last_request.context_id = c
        /\ last_request.phase_before = READY_TO_PROCESS
        /\ Parsed[last_request.query].domains = ALL_DOMAINS
        /\ Len(conversation_states[c].messages_history) > 8

(***************************************************************************)
(* C35: awaiting_processing_confirmation is set only while the context     *)
(* waits for the go-ahead: the phase is READY_TO_PROCESS and no background *)
(* task was started for the context.                                       *)
(***************************************************************************)
HandedOff(context_id) == \E w \in Workers : w.context_id = context_id

C35_PendingOnlyBeforeHandoff ==
    \A c \in DOMAIN conversation_states :
        conversation_states[c].awaiting_processing_confirmation
            => /\ conversation_states[c].phase = READY_TO_PROCESS
               /\ ~HandedOff(c)

(***************************************************************************)
(* C36: the pre-check of the executor answers True only for an affirmative *)
(* utterance on a context in READY_TO_PROCESS; for every other phase and   *)
(* every other utterance it answers False.                                 *)
(***************************************************************************)
\* a conversation state in the given phase
InPhase(phase) == [ConversationState EXCEPT !.phase = phase]

C36_PreCheckOnlyOnConfirmation ==
    /\ \A phase \in ConversationPhases, query \in TurnUtterances :
           should_start_async(InPhase(phase), query)
               <=> (phase = READY_TO_PROCESS /\ Parsed[query].pre_check)
    /\ last_request.spawned
           => /\ last_request.phase_before = READY_TO_PROCESS
              /\ Parsed[last_request.query].pre_check

(***************************************************************************)
(* C37: on a context in READY_TO_PROCESS the pre-check of the executor     *)
(* answers True for an utterance exactly when the turn of the controller   *)
(* on that utterance sets trigger_async_processing.                        *)
(***************************************************************************)
Ready == {c \in DOMAIN conversation_states : conversation_states[c].phase = READY_TO_PROCESS}

\* the item a turn of the controller on query would yield
TurnItem(context_id, query) == stream_known(conversation_states, query, context_id).item

C37_PreCheckAgreesWithTurn ==
    \A c \in Ready, query \in TurnUtterances :
        _should_start_async_processing(conversation_states, c, query)
            <=> TurnItem(c, query).trigger_async_processing

\* a context in READY_TO_PROCESS on which both answer True for one utterance
\* and both answer False for another
C37_Witness ==
    \E c \in Ready :
        /\ _should_start_async_processing(conversation_states, c, "yes, create my plan")
        /\ TurnItem(c, "yes, create my plan").trigger_async_processing
        /\ ~_should_start_async_processing(conversation_states, c, "all topics\nthanks")
        /\ ~TurnItem(c, "all topics\nthanks").trigger_async_processing

(***************************************************************************)
(* C38: every request execute() handled ended with a final event on its    *)
(* queue or with a background task started for it.                         *)
(***************************************************************************)
EndsWithFinalEvent(events) == \E i \in 1..Len(events) : events[i].final

C38_FinalEventOrWorker ==
    last_request.task # 0
        => \/ EndsWithFinalEvent(last_request.events)
           \/ last_request.spawned

(***************************************************************************)
(* C39: a context in PREFERENCE_GATHERING has domains and a skill level,   *)
(* so a turn there whose preference parse succeeds advances to             *)
(* READY_TO_PROCESS, and no turn answers with the request for inputs that  *)
(* are still missing.                                                      *)
(***************************************************************************)
AsksForMissing(events) == \E i \in 1..Len(events) : events[i].content.id = "still_missing"

C39_PreferenceTurnAlwaysAdvances ==
    /\ \A c \in DOMAIN conversation_states :
           conversation_states[c].phase = PREFERENCE_GATHERING
               => /\ conversation_states[c].user_inputs.domains # <<>>
                  /\ conversation_states[c].user_inputs.skill_level # None
    /\ LastWasPreference
           => PhaseOf(conversation_states, last_request.context_id) = READY_TO_PROCESS
    /\ ~AsksForMissing(last_request.events)

\* a turn in PREFERENCE_GATHERING parsed a preference and advanced
C39_Witness ==
    /\ last_request.phase_before = PREFERENCE_GATHERING
    /\ Parsed[last_request.query].preference = "theory_heavy"
    /\ InputsOf(conversation_states, last_request.context_id).preference = "theory_heavy"
    /\ PhaseOf(conversation_states, last_request.context_id) = READY_TO_PROCESS
    /\ last_request.events[Len(last_request.events)].content.id = "summary_confirm"

====
